---- MODULE Spec2Model ----
(***************************************************************************)
(* A model of the smhd-api-wot HTTP server (src/src/server.ts) and of the  *)
(* storage it drives through Prisma (src/prisma/schema.prisma).            *)
(*                                                                         *)
(* State: the four collections (users, devices, userDevices,               *)
(* deviceEvents), the process environment, and the requests in flight.     *)
(* Node runs a handler without interruption between two awaits, so every   *)
(* action is one such run: the code from the arrival of a request (or from *)
(* the resumption after an awaited storage call) up to and including the   *)
(* next storage call.  Two request slots give the overlapping requests.    *)
(***************************************************************************)
EXTENDS Integers, FiniteSets, Sequences, TLC

VARIABLES env, relationMode, users, devices, userDevices, deviceEvents,
          lastId, req

vars ==
  <<env, relationMode, users, devices, userDevices, deviceEvents, lastId, req>>

stores == <<users, devices, userDevices, deviceEvents, lastId>>

----------------------------------------------------------------------------
(* Bounds of the model *)

MaxUserId == 2
MaxDeviceId == 2
MaxLinkId == 2
MaxEventId == 2
MaxDate == 2

(* The requests that can be in flight together *)
Reqs == {"r1", "r2"}

----------------------------------------------------------------------------
(* Values *)

Undefined == "undefined"

Emails == {"ana@smhd.io", "bob@smhd.io"}
EmailInputs == Emails \cup {"not-an-email"}
Passwords == {"pw1", "pw2"}
Serials == {"S1", "S2"}
SerialInputs == Serials \cup {""}
ApiKeyHeaders == {Undefined, "key-1", "key-2"}

IsoTable ==
  <<"2023-12-31T00:00:00Z", "2024-01-15T00:00:00Z", "2024-02-01T00:00:00Z",
    "2024-03-01T00:00:00Z">>
IsoDates == {IsoTable[i] : i \in 1..MaxDate}
DateInputs == IsoDates \cup {"yesterday"}

NoUser == [id |-> 0, email |-> "", password |-> ""]
NoDevice == [id |-> 0, serialNumber |-> ""]
NoToken == [id |-> 0, email |-> "", expiresIn |-> ""]
NoAuth == [tag |-> "none", id |-> 0, expired |-> FALSE]

(* An idle request slot: no request, no locals, no reply *)
Idle ==
  [kind |-> "none", pc |-> "idle", apiKey |-> Undefined, auth |-> NoAuth,
   email |-> "", password |-> "", serialNumber |-> "", id |-> 0,
   startDate |-> Undefined, endDate |-> Undefined, happenedAt |-> Undefined,
   user |-> NoUser, device |-> NoDevice, deviceIds |-> {}, count |-> 0,
   calls |-> 0,
   status |-> 0, message |-> "", token |-> NoToken, devices |-> {},
   events |-> {}]

Free(r) == req[r].pc \in {"idle", "done"}

----------------------------------------------------------------------------
(* Pure functions *)

(* z.string().email() *)
IsEmail(s) == s \in Emails

(* z.string().datetime() *)
IsDatetime(s) == s \in IsoDates

(* new Date(s): the instant of a well-formed date-time string *)
NewDate(s) == CHOOSE i \in 1..MaxDate : IsoTable[i] = s

(* bcrypt hash(password, 8) *)
Hash(password) == "$2b$08$" \o password

(* A comparison of the plaintext with the digest itself *)
ComparePlain(password, digest) == digest = password

(* A comparison that accepts every password *)
CompareAny(password, digest) == TRUE

(* bcrypt compare(password, digest) *)
Compare(password, digest) == digest = Hash(password)

(* app.jwt.sign(payload, {expiresIn}) *)
Sign(user, expiresIn) ==
  [id |-> user.id, email |-> user.email, expiresIn |-> expiresIn]

(* The time span an expiresIn string stands for, in hours: jwt.sign reads   *)
(* "<n>d" as n days and "<n>h" as n hours                                   *)
Lifetime(expiresIn) ==
  CASE expiresIn = "1d" -> 24
    [] expiresIn = "7d" -> 7 * 24
    [] expiresIn = "12h" -> 12

(* A registration that signs for seven days whatever the environment *)
RegisterExpiresSevenDays == "7d"

(* process.env.JWT_EXPIRES_IN || "1d" *)
RegisterExpiresIn ==
  IF env.JWT_EXPIRES_IN = Undefined THEN "1d" ELSE env.JWT_EXPIRES_IN

LoginExpiresIn == "7d"

(* The onRequest hook: TRUE when the request is let through *)
ApiKeyHook(header) == ~(env.API_KEY # header)

----------------------------------------------------------------------------
(* Storage calls *)

(* user.findFirst({where: {email}}) *)
UserFindFirst(email) ==
  IF \E u \in users : u.email = email
  THEN CHOOSE u \in users : u.email = email
  ELSE NoUser

(* A users collection without the unique index *)
UserEmailNotIndexed(email) == FALSE

(* The unique index on User.email *)
UserEmailTaken(email) == \E u \in users : u.email = email

NextUserId == Cardinality(users) + 1

----------------------------------------------------------------------------
(* POST /auth/register *)

RegisterFind(r, apiKey, email, password) ==
  /\ Free(r)
  /\ LET h == [Idle EXCEPT !.kind = "register", !.apiKey = apiKey]
         q == [h EXCEPT !.email = email, !.password = password]
     IN  IF ~ApiKeyHook(apiKey)
         THEN req' = [req EXCEPT ![r] = [h EXCEPT !.pc = "done", !.status = 403]]
         ELSE IF ~IsEmail(email)
         THEN req' = [req EXCEPT ![r] =
                        [h EXCEPT !.pc = "done", !.status = 500,
                                  !.message = "ZodError"]]
         ELSE LET found == UserFindFirst(email)
              IN  IF found # NoUser
                  THEN req' = [req EXCEPT ![r] =
                                 [q EXCEPT !.pc = "done", !.calls = 1,
                                           !.user = found, !.status = 409,
                                           !.message = "User already exists"]]
                  ELSE req' = [req EXCEPT ![r] =
                                 [q EXCEPT !.pc = "create", !.calls = 1]]
  /\ UNCHANGED <<env, relationMode, stores>>

RegisterCreate(r) ==
  /\ req[r].kind = "register"
  /\ req[r].pc = "create"
  /\ NextUserId <= MaxUserId
  /\ IF UserEmailTaken(req[r].email)
     THEN /\ req' = [req EXCEPT ![r].pc = "done", ![r].calls = 2,
                                ![r].status = 500,
                                ![r].message = "P2002 Unique constraint failed"]
          /\ UNCHANGED users
     ELSE LET user == [id |-> NextUserId, email |-> req[r].email,
                       password |-> Hash(req[r].password)]
          IN  /\ users' = users \cup {user}
              /\ req' = [req EXCEPT ![r].pc = "done", ![r].calls = 2,
                                    ![r].user = user, ![r].status = 201,
                                    ![r].token = Sign(user, RegisterExpiresIn)]
  /\ UNCHANGED <<env, relationMode, devices, userDevices, deviceEvents, lastId>>

----------------------------------------------------------------------------
(* POST /auth/login *)

Login(r, apiKey, email, password) ==
  /\ Free(r)
  /\ LET h == [Idle EXCEPT !.kind = "login", !.apiKey = apiKey]
         q == [h EXCEPT !.email = email, !.password = password]
     IN  IF ~ApiKeyHook(apiKey)
         THEN req' = [req EXCEPT ![r] = [h EXCEPT !.pc = "done", !.status = 403]]
         ELSE IF ~IsEmail(email)
         THEN req' = [req EXCEPT ![r] =
                        [h EXCEPT !.pc = "done", !.status = 500,
                                  !.message = "ZodError"]]
         ELSE LET found == UserFindFirst(email)
              IN  IF found = NoUser
                  THEN req' = [req EXCEPT ![r] =
                                 [q EXCEPT !.pc = "done", !.calls = 1,
                                           !.status = 401,
                                           !.message = "Email or password incorrect"]]
                  ELSE IF ~Compare(password, found.password)
                  THEN req' = [req EXCEPT ![r] =
                                 [q EXCEPT !.pc = "done", !.calls = 1,
                                           !.user = found, !.status = 401,
                                           !.message = "Email or password incorrect"]]
                  ELSE req' = [req EXCEPT ![r] =
                                 [q EXCEPT !.pc = "done", !.calls = 1,
                                           !.user = found, !.status = 200,
                                           !.token = Sign(found, LoginExpiresIn)]]
  /\ UNCHANGED <<env, relationMode, stores>>

----------------------------------------------------------------------------
(* The session gate and the storage calls of the device routes *)

(* The credentials a session-gated request can carry: no Authorization      *)
(* header, a token that does not verify, or a token the server signed for   *)
(* a user, expired or not at the time of the request                        *)
AuthInputs ==
  {NoAuth, [NoAuth EXCEPT !.tag = "malformed"]}
    \cup {[tag |-> "jwt", id |-> u.id, expired |-> x] :
            u \in users, x \in BOOLEAN}

(* A verification that does not look at the expiry of the token *)
AuthenticateAnyAge(auth) == auth.tag = "jwt"

(* authenticate: request.jwtVerify() resolves; otherwise the error is sent *)
Authenticate(auth) == auth.tag = "jwt" /\ ~auth.expired

(* A lookup that never finds the device *)
DeviceFindNone(serialNumber) == NoDevice

(* device.findFirst({where: {serialNumber}}) *)
DeviceFindFirst(serialNumber) ==
  IF \E d \in devices : d.serialNumber = serialNumber
  THEN CHOOSE d \in devices : d.serialNumber = serialNumber
  ELSE NoDevice

(* A devices collection without the unique index *)
SerialNotIndexed(serialNumber) == FALSE

(* The unique index on Device.serialNumber *)
SerialTaken(serialNumber) == \E d \in devices : d.serialNumber = serialNumber

(* A findMany without its where clause *)
UserDeviceFindAll(userId) == userDevices

(* userDevice.findMany({where: {userId}}) *)
UserDeviceFindMany(userId) == {l \in userDevices : l.userId = userId}

(* userDevice.deleteMany({where: {userId, deviceId}}): the rows it removes *)
UserDeviceMatching(userId, deviceId) ==
  {l \in userDevices : l.userId = userId /\ l.deviceId = deviceId}

(* device.findMany({where: {id: {in: deviceIds}}}) *)
DeviceFindMany(deviceIds) == {d \in devices : d.id \in deviceIds}

(* The relations of UserDevice and DeviceEvent to Device carry no onDelete: *)
(* where Prisma emulates referential actions the default, Restrict, makes   *)
(* device.delete throw while a row still refers to the device               *)
DeleteRestricted(id) ==
  /\ relationMode = "restrict"
  /\ \/ \E l \in userDevices : l.deviceId = id
     \/ \E e \in deviceEvents : e.deviceId = id

(* A relation of DeviceEvent to Device with onDelete: Cascade *)
EventsCascaded(id) == {e \in deviceEvents : e.deviceId # id}

(* device.delete({where: {id}}): the DeviceEvent rows after it.  The         *)
(* relation carries no onDelete, so no event is removed with the device     *)
EventsLeftByDelete(id) == deviceEvents

(* A filter with gt in place of gte *)
HappenedAtFilterAfter(startDate, endDate, happenedAt) ==
  /\ startDate # Undefined => happenedAt > NewDate(startDate)
  /\ endDate # Undefined => happenedAt <= NewDate(endDate)

(* queryArgs.happenedAt of GET /devices/:serialNumber/events *)
HappenedAtFilter(startDate, endDate, happenedAt) ==
  IF startDate # Undefined /\ endDate # Undefined
  THEN happenedAt <= NewDate(endDate) /\ happenedAt >= NewDate(startDate)
  ELSE IF startDate # Undefined /\ endDate = Undefined
  THEN happenedAt >= NewDate(startDate)
  ELSE IF startDate = Undefined /\ endDate # Undefined
  THEN happenedAt <= NewDate(endDate)
  ELSE TRUE

(* deviceEvent.findMany({where: {deviceId, ...queryArgs}}) *)
DeviceEventFindMany(deviceId, startDate, endDate) ==
  {e \in deviceEvents :
     e.deviceId = deviceId /\ HappenedAtFilter(startDate, endDate, e.happenedAt)}

NextEventId == Cardinality(deviceEvents) + 1

(* A request stopped by a hook: h is the request as far as it was read *)
Stopped(r, h, status, message) ==
  req' = [req EXCEPT ![r] =
            [h EXCEPT !.pc = "done", !.status = status, !.message = message]]

----------------------------------------------------------------------------
(* POST /devices *)

PostDeviceFind(r, apiKey, auth, serialNumber) ==
  /\ Free(r)
  /\ LET a == [Idle EXCEPT !.kind = "postDevice", !.apiKey = apiKey,
                           !.auth = auth]
         q == [a EXCEPT !.serialNumber = serialNumber, !.calls = 1]
         found == DeviceFindFirst(serialNumber)
     IN  IF ~ApiKeyHook(apiKey) THEN Stopped(r, a, 403, "")
         ELSE IF ~Authenticate(auth) THEN Stopped(r, a, 401, "Unauthorized")
         ELSE IF found # NoDevice
         THEN req' = [req EXCEPT ![r] =
                        [q EXCEPT !.pc = "done", !.device = found,
                                  !.status = 201, !.devices = {found}]]
         ELSE req' = [req EXCEPT ![r] = [q EXCEPT !.pc = "create"]]
  /\ UNCHANGED <<env, relationMode, stores>>

PostDeviceCreate(r) ==
  /\ req[r].kind = "postDevice"
  /\ req[r].pc = "create"
  /\ lastId.device < MaxDeviceId
  /\ IF SerialTaken(req[r].serialNumber)
     THEN /\ req' = [req EXCEPT ![r].pc = "done", ![r].calls = 2,
                                ![r].status = 500,
                                ![r].message = "P2002 Unique constraint failed"]
          /\ UNCHANGED <<devices, lastId>>
     ELSE LET device == [id |-> lastId.device + 1,
                         serialNumber |-> req[r].serialNumber]
          IN  /\ devices' = devices \cup {device}
              /\ lastId' = [lastId EXCEPT !.device = @ + 1]
              /\ req' = [req EXCEPT ![r].pc = "link", ![r].calls = 2,
                                    ![r].device = device]
  /\ UNCHANGED <<env, relationMode, users, userDevices, deviceEvents>>

PostDeviceLink(r) ==
  /\ req[r].kind = "postDevice"
  /\ req[r].pc = "link"
  /\ lastId.userDevice < MaxLinkId
  /\ userDevices' = userDevices \cup
       {[id |-> lastId.userDevice + 1, userId |-> req[r].auth.id,
         deviceId |-> req[r].device.id]}
  /\ lastId' = [lastId EXCEPT !.userDevice = @ + 1]
  /\ req' = [req EXCEPT ![r].pc = "done", ![r].calls = 3, ![r].status = 201,
                        ![r].devices = {req[r].device}]
  /\ UNCHANGED <<env, relationMode, users, devices, deviceEvents>>

(* userDevice.create rejects (the storage is unreachable, the call times    *)
(* out): the handler has no try/catch and no transaction around its two     *)
(* writes, so the error goes to the caller and the Device row stays         *)
PostDeviceLinkFails(r) ==
  /\ req[r].kind = "postDevice"
  /\ req[r].pc = "link"
  /\ req' = [req EXCEPT ![r].pc = "done", ![r].calls = 3, ![r].status = 500,
                        ![r].message = "PrismaClientKnownRequestError"]
  /\ UNCHANGED <<env, relationMode, stores>>

----------------------------------------------------------------------------
(* DELETE /devices/:id *)

DeleteDeviceUnlink(r, apiKey, auth, id) ==
  /\ Free(r)
  /\ LET a == [Idle EXCEPT !.kind = "deleteDevice", !.apiKey = apiKey,
                           !.auth = auth]
         gone == UserDeviceMatching(auth.id, id)
     IN  IF ~ApiKeyHook(apiKey)
         THEN Stopped(r, a, 403, "") /\ UNCHANGED userDevices
         ELSE IF ~Authenticate(auth)
         THEN Stopped(r, a, 401, "Unauthorized") /\ UNCHANGED userDevices
         ELSE /\ userDevices' = userDevices \ gone
              /\ req' = [req EXCEPT ![r] =
                           [a EXCEPT !.id = id, !.pc = "delete", !.calls = 1,
                                     !.count = Cardinality(gone)]]
  /\ UNCHANGED <<env, relationMode, users, devices, deviceEvents, lastId>>

DeleteDeviceDelete(r) ==
  /\ req[r].kind = "deleteDevice"
  /\ req[r].pc = "delete"
  /\ IF ~(\E d \in devices : d.id = req[r].id)
     THEN /\ req' = [req EXCEPT ![r].pc = "done", ![r].calls = 2,
                                ![r].status = 500,
                                ![r].message = "P2025 Record to delete does not exist"]
          /\ UNCHANGED <<devices, deviceEvents>>
     ELSE IF DeleteRestricted(req[r].id)
     THEN /\ req' = [req EXCEPT ![r].pc = "done", ![r].calls = 2,
                                ![r].status = 500,
                                ![r].message = "P2014 Required relation violated"]
          /\ UNCHANGED <<devices, deviceEvents>>
     ELSE /\ devices' = {d \in devices : d.id # req[r].id}
          /\ deviceEvents' = EventsLeftByDelete(req[r].id)
          /\ req' = [req EXCEPT ![r].pc = "done", ![r].calls = 2,
                                ![r].status = 200]
  /\ UNCHANGED <<env, relationMode, users, userDevices, lastId>>

----------------------------------------------------------------------------
(* GET /devices *)

GetDevicesLinks(r, apiKey, auth) ==
  /\ Free(r)
  /\ LET a == [Idle EXCEPT !.kind = "getDevices", !.apiKey = apiKey,
                           !.auth = auth]
     IN  IF ~ApiKeyHook(apiKey) THEN Stopped(r, a, 403, "")
         ELSE IF ~Authenticate(auth) THEN Stopped(r, a, 401, "Unauthorized")
         ELSE req' = [req EXCEPT ![r] =
                        [a EXCEPT !.pc = "find", !.calls = 1,
                                  !.deviceIds =
                                     {l.deviceId : l \in UserDeviceFindMany(auth.id)}]]
  /\ UNCHANGED <<env, relationMode, stores>>

GetDevicesFind(r) ==
  /\ req[r].kind = "getDevices"
  /\ req[r].pc = "find"
  /\ req' = [req EXCEPT ![r].pc = "done", ![r].calls = 2, ![r].status = 200,
                        ![r].devices = DeviceFindMany(req[r].deviceIds)]
  /\ UNCHANGED <<env, relationMode, stores>>

----------------------------------------------------------------------------
(* GET /devices/:serialNumber/events *)

GetEventsFind(r, apiKey, auth, serialNumber, startDate, endDate) ==
  /\ Free(r)
  /\ LET a == [Idle EXCEPT !.kind = "getEvents", !.apiKey = apiKey,
                           !.auth = auth]
         s == [a EXCEPT !.serialNumber = serialNumber, !.startDate = startDate,
                        !.endDate = endDate]
         found == DeviceFindFirst(serialNumber)
     IN  IF ~ApiKeyHook(apiKey) THEN Stopped(r, a, 403, "")
         ELSE IF ~Authenticate(auth) THEN Stopped(r, a, 401, "Unauthorized")
         ELSE IF serialNumber = ""
         THEN Stopped(r, s, 400, "Serial number must be provided")
         ELSE IF found = NoDevice
         THEN Stopped(r, [s EXCEPT !.calls = 1], 404, "Can not find the device")
         ELSE IF \/ startDate # Undefined /\ ~IsDatetime(startDate)
                 \/ endDate # Undefined /\ ~IsDatetime(endDate)
         THEN Stopped(r, [s EXCEPT !.calls = 1, !.device = found], 500, "ZodError")
         ELSE req' = [req EXCEPT ![r] =
                        [s EXCEPT !.pc = "query", !.calls = 1, !.device = found]]
  /\ UNCHANGED <<env, relationMode, stores>>

GetEventsQuery(r) ==
  /\ req[r].kind = "getEvents"
  /\ req[r].pc = "query"
  /\ req' = [req EXCEPT ![r].pc = "done", ![r].calls = 2, ![r].status = 200,
                        ![r].events =
                           DeviceEventFindMany(req[r].device.id, req[r].startDate,
                                               req[r].endDate)]
  /\ UNCHANGED <<env, relationMode, stores>>

----------------------------------------------------------------------------
(* POST /devices/:serialNumber/events *)

PostEventFind(r, apiKey, serialNumber, happenedAt) ==
  /\ Free(r)
  /\ LET h == [Idle EXCEPT !.kind = "postEvent", !.apiKey = apiKey]
         q == [h EXCEPT !.serialNumber = serialNumber, !.happenedAt = happenedAt]
         found == DeviceFindFirst(serialNumber)
     IN  IF ~ApiKeyHook(apiKey) THEN Stopped(r, h, 403, "")
         ELSE IF ~IsDatetime(happenedAt) THEN Stopped(r, h, 500, "ZodError")
         ELSE IF serialNumber = ""
         THEN Stopped(r, q, 400, "Serial number must be provided")
         ELSE req' = [req EXCEPT ![r] =
                        [q EXCEPT !.calls = 1, !.device = found,
                                  !.pc = IF found = NoDevice THEN "create"
                                         ELSE "event"]]
  /\ UNCHANGED <<env, relationMode, stores>>

PostEventCreate(r) ==
  /\ req[r].kind = "postEvent"
  /\ req[r].pc = "create"
  /\ lastId.device < MaxDeviceId
  /\ IF SerialTaken(req[r].serialNumber)
     THEN /\ req' = [req EXCEPT ![r].pc = "done", ![r].calls = 2,
                                ![r].status = 500,
                                ![r].message = "P2002 Unique constraint failed"]
          /\ UNCHANGED <<devices, lastId>>
     ELSE LET device == [id |-> lastId.device + 1,
                         serialNumber |-> req[r].serialNumber]
          IN  /\ devices' = devices \cup {device}
              /\ lastId' = [lastId EXCEPT !.device = @ + 1]
              /\ req' = [req EXCEPT ![r].pc = "event", ![r].calls = 2,
                                    ![r].device = device]
  /\ UNCHANGED <<env, relationMode, users, userDevices, deviceEvents>>

PostEventInsert(r) ==
  /\ req[r].kind = "postEvent"
  /\ req[r].pc = "event"
  /\ NextEventId <= MaxEventId
  /\ LET deviceEvent == [id |-> NextEventId, deviceId |-> req[r].device.id,
                         happenedAt |-> NewDate(req[r].happenedAt)]
     IN  /\ deviceEvents' = deviceEvents \cup {deviceEvent}
         /\ req' = [req EXCEPT ![r].pc = "done", ![r].calls = @ + 1,
                               ![r].status = 201, ![r].events = {deviceEvent}]
  /\ UNCHANGED <<env, relationMode, users, devices, userDevices, lastId>>

----------------------------------------------------------------------------
(* The inputs of requests that pass both hooks *)
Admitted == {env.API_KEY}
Sessions == {a \in AuthInputs : Authenticate(a)}
OptDates == IsoDates \cup {Undefined}
QueryDateInputs == OptDates \cup {"yesterday"}

(* One request at a time *)
Sequential == {"r1"}

----------------------------------------------------------------------------
(* Specifications *)

EnvInit ==
  /\ env \in [API_KEY : {Undefined, "key-1"}, JWT_EXPIRES_IN : {Undefined, "12h"}]
  /\ relationMode \in {"restrict", "noAction"}

Empty ==
  /\ users = {}
  /\ devices = {}
  /\ userDevices = {}
  /\ deviceEvents = {}
  /\ lastId = [device |-> 0, userDevice |-> 0]
  /\ req = [r \in Reqs |-> Idle]

Init == EnvInit /\ Empty

Next ==
  \/ \E r \in Reqs, k \in ApiKeyHeaders, e \in EmailInputs, p \in Passwords :
       RegisterFind(r, k, e, p)
  \/ \E r \in Reqs : RegisterCreate(r)
  \/ \E r \in Reqs, k \in ApiKeyHeaders, e \in EmailInputs, p \in Passwords :
       Login(r, k, e, p)
  \/ \E r \in Reqs, k \in ApiKeyHeaders, a \in AuthInputs, s \in Serials :
       PostDeviceFind(r, k, a, s)
  \/ \E r \in Reqs : PostDeviceCreate(r)
  \/ \E r \in Reqs : PostDeviceLink(r)
  \/ \E r \in Reqs : PostDeviceLinkFails(r)
  \/ \E r \in Reqs, k \in ApiKeyHeaders, a \in AuthInputs, i \in 1..MaxDeviceId :
       DeleteDeviceUnlink(r, k, a, i)
  \/ \E r \in Reqs : DeleteDeviceDelete(r)
  \/ \E r \in Reqs, k \in ApiKeyHeaders, a \in AuthInputs :
       GetDevicesLinks(r, k, a)
  \/ \E r \in Reqs : GetDevicesFind(r)
  \/ \E r \in Reqs, k \in ApiKeyHeaders, a \in AuthInputs, s \in SerialInputs,
        sd \in QueryDateInputs, ed \in QueryDateInputs :
       GetEventsFind(r, k, a, s, sd, ed)
  \/ \E r \in Reqs : GetEventsQuery(r)
  \/ \E r \in Reqs, k \in ApiKeyHeaders, s \in SerialInputs, h \in DateInputs :
       PostEventFind(r, k, s, h)
  \/ \E r \in Reqs : PostEventCreate(r)
  \/ \E r \in Reqs : PostEventInsert(r)

Spec == Init /\ [][Next]_vars

(* Registration and login, overlapping, with every input *)
InitAuth == Init /\ relationMode = "restrict"

NextAuth ==
  \/ \E r \in Reqs, k \in ApiKeyHeaders, e \in EmailInputs, p \in Passwords :
       RegisterFind(r, k, e, p)
  \/ \E r \in Reqs : RegisterCreate(r)
  \/ \E r \in Reqs, k \in ApiKeyHeaders, e \in EmailInputs, p \in Passwords :
       Login(r, k, e, p)

SpecAuth == InitAuth /\ [][NextAuth]_vars

(* Ingestion, overlapping, with every input *)
InitIngest ==
  Init /\ relationMode = "restrict" /\ env.JWT_EXPIRES_IN = Undefined

NextIngest ==
  \/ \E r \in Reqs, k \in ApiKeyHeaders, s \in SerialInputs, h \in DateInputs :
       PostEventFind(r, k, s, h)
  \/ \E r \in Reqs : PostEventCreate(r)
  \/ \E r \in Reqs : PostEventInsert(r)

SpecIngest == InitIngest /\ [][NextIngest]_vars

(* Two users are registered: the state after two POST /auth/register *)
Registered ==
  {[id |-> 1, email |-> "ana@smhd.io", password |-> Hash("pw1")],
   [id |-> 2, email |-> "bob@smhd.io", password |-> Hash("pw2")]}

InitRegistered ==
  /\ EnvInit /\ env.JWT_EXPIRES_IN = Undefined
  /\ users = Registered
  /\ devices = {}
  /\ userDevices = {}
  /\ deviceEvents = {}
  /\ lastId = [device |-> 0, userDevice |-> 0]
  /\ req = [r \in Reqs |-> Idle]

(* The session-gated routes, one request at a time, with every credential *)
NextSession ==
  \/ \E r \in Sequential, k \in ApiKeyHeaders, a \in AuthInputs, s \in Serials :
       PostDeviceFind(r, k, a, s)
  \/ \E r \in Sequential : PostDeviceCreate(r)
  \/ \E r \in Sequential : PostDeviceLink(r)
  \/ \E r \in Sequential, k \in ApiKeyHeaders, a \in AuthInputs,
        i \in 1..MaxDeviceId :
       DeleteDeviceUnlink(r, k, a, i)
  \/ \E r \in Sequential : DeleteDeviceDelete(r)
  \/ \E r \in Sequential, k \in ApiKeyHeaders, a \in AuthInputs :
       GetDevicesLinks(r, k, a)
  \/ \E r \in Sequential : GetDevicesFind(r)
  \/ \E r \in Sequential, k \in ApiKeyHeaders, a \in AuthInputs,
        s \in SerialInputs :
       GetEventsFind(r, k, a, s, Undefined, Undefined)
  \/ \E r \in Sequential : GetEventsQuery(r)

SpecSession == InitRegistered /\ [][NextSession]_vars

(* Device registration, deletion, listing and ingestion, one request at a   *)
(* time, by requests that pass the hooks                                    *)
InitOwnership == InitRegistered /\ env.API_KEY = "key-1"

NextOwnership ==
  \/ \E r \in Sequential, k \in Admitted, a \in Sessions, s \in Serials :
       PostDeviceFind(r, k, a, s)
  \/ \E r \in Sequential : PostDeviceCreate(r)
  \/ \E r \in Sequential : PostDeviceLink(r)
  \/ \E r \in Sequential, k \in Admitted, a \in Sessions, i \in 1..MaxDeviceId :
       DeleteDeviceUnlink(r, k, a, i)
  \/ \E r \in Sequential : DeleteDeviceDelete(r)
  \/ \E r \in Sequential, k \in Admitted, a \in Sessions :
       GetDevicesLinks(r, k, a)
  \/ \E r \in Sequential : GetDevicesFind(r)
  \/ \E r \in Sequential, k \in Admitted, s \in Serials :
       PostEventFind(r, k, s, IsoTable[1])
  \/ \E r \in Sequential : PostEventCreate(r)
  \/ \E r \in Sequential : PostEventInsert(r)

SpecOwnership == InitOwnership /\ [][NextOwnership]_vars

(* Device registration by both users, ingestion, and event queries by one   *)
(* of them (the other's differ by the name only), one request at a time, by *)
(* requests that pass the hooks                                             *)
SessionOfAna == [tag |-> "jwt", id |-> 1, expired |-> FALSE]

InitEvents ==
  InitRegistered /\ env.API_KEY = "key-1" /\ relationMode = "restrict"

NextEvents ==
  \/ \E r \in Sequential, k \in Admitted, a \in Sessions, s \in Serials :
       PostDeviceFind(r, k, a, s)
  \/ \E r \in Sequential : PostDeviceCreate(r)
  \/ \E r \in Sequential : PostDeviceLink(r)
  \/ \E r \in Sequential, k \in Admitted, s \in Serials, h \in IsoDates :
       PostEventFind(r, k, s, h)
  \/ \E r \in Sequential : PostEventCreate(r)
  \/ \E r \in Sequential : PostEventInsert(r)
  \/ \E r \in Sequential, k \in Admitted, s \in Serials,
        sd \in OptDates, ed \in OptDates :
       GetEventsFind(r, k, SessionOfAna, s, sd, ed)
  \/ \E r \in Sequential : GetEventsQuery(r)

SpecEvents == InitEvents /\ [][NextEvents]_vars

(* Device registration and deletion, overlapping, by requests that pass the *)
(* hooks                                                                    *)
NextDevices ==
  \/ \E r \in Reqs, k \in Admitted, a \in Sessions, s \in Serials :
       PostDeviceFind(r, k, a, s)
  \/ \E r \in Reqs : PostDeviceCreate(r)
  \/ \E r \in Reqs : PostDeviceLink(r)
  \/ \E r \in Reqs, k \in Admitted, a \in Sessions, i \in 1..MaxDeviceId :
       DeleteDeviceUnlink(r, k, a, i)
  \/ \E r \in Reqs : DeleteDeviceDelete(r)

SpecDevices == InitOwnership /\ [][NextDevices]_vars

(* Device registration whose second write can fail, deletion and listing,   *)
(* one request at a time, by requests that pass the hooks                   *)
NextRetry ==
  \/ \E r \in Sequential, k \in Admitted, a \in Sessions, s \in Serials :
       PostDeviceFind(r, k, a, s)
  \/ \E r \in Sequential : PostDeviceCreate(r)
  \/ \E r \in Sequential : PostDeviceLink(r)
  \/ \E r \in Sequential : PostDeviceLinkFails(r)
  \/ \E r \in Sequential, k \in Admitted, a \in Sessions, i \in 1..MaxDeviceId :
       DeleteDeviceUnlink(r, k, a, i)
  \/ \E r \in Sequential : DeleteDeviceDelete(r)
  \/ \E r \in Sequential, k \in Admitted, a \in Sessions :
       GetDevicesLinks(r, k, a)
  \/ \E r \in Sequential : GetDevicesFind(r)

SpecRetry == InitOwnership /\ [][NextRetry]_vars

(* Device registration and ingestion, overlapping, by requests that pass    *)
(* the hooks                                                                *)
NextSerials ==
  \/ \E r \in Reqs, k \in Admitted, a \in Sessions, s \in Serials :
       PostDeviceFind(r, k, a, s)
  \/ \E r \in Reqs : PostDeviceCreate(r)
  \/ \E r \in Reqs : PostDeviceLink(r)
  \/ \E r \in Reqs, k \in Admitted, s \in Serials :
       PostEventFind(r, k, s, IsoTable[1])
  \/ \E r \in Reqs : PostEventCreate(r)
  \/ \E r \in Reqs : PostEventInsert(r)

SpecSerials == InitEvents /\ [][NextSerials]_vars

(* Device registration, ingestion and event queries with every startDate    *)
(* and endDate, one request at a time, by requests that pass the hooks      *)
NextQuery ==
  \/ \E r \in Sequential, k \in Admitted, a \in Sessions, s \in Serials :
       PostDeviceFind(r, k, a, s)
  \/ \E r \in Sequential : PostDeviceCreate(r)
  \/ \E r \in Sequential : PostDeviceLink(r)
  \/ \E r \in Sequential, k \in Admitted, s \in Serials :
       PostEventFind(r, k, s, IsoTable[1])
  \/ \E r \in Sequential : PostEventCreate(r)
  \/ \E r \in Sequential : PostEventInsert(r)
  \/ \E r \in Sequential, k \in Admitted, s \in SerialInputs,
        sd \in QueryDateInputs, ed \in QueryDateInputs :
       GetEventsFind(r, k, SessionOfAna, s, sd, ed)
  \/ \E r \in Sequential : GetEventsQuery(r)

SpecQuery == InitEvents /\ [][NextQuery]_vars

(* Every route, one request at a time, by requests that pass the hooks: one *)
(* user is registered at the start, the other can register                  *)
InitRoutes ==
  /\ EnvInit /\ env.API_KEY = "key-1" /\ env.JWT_EXPIRES_IN = Undefined
  /\ users = {u \in Registered : u.id = 1}
  /\ devices = {}
  /\ userDevices = {}
  /\ deviceEvents = {}
  /\ lastId = [device |-> 0, userDevice |-> 0]
  /\ req = [r \in Reqs |-> Idle]

NextRoutes ==
  \/ \E r \in Sequential, k \in Admitted, e \in Emails :
       RegisterFind(r, k, e, "pw2")
  \/ \E r \in Sequential : RegisterCreate(r)
  \/ \E r \in Sequential, k \in Admitted, e \in Emails :
       Login(r, k, e, "pw2")
  \/ \E r \in Sequential, k \in Admitted, a \in Sessions, s \in Serials :
       PostDeviceFind(r, k, a, s)
  \/ \E r \in Sequential : PostDeviceCreate(r)
  \/ \E r \in Sequential : PostDeviceLink(r)
  \/ \E r \in Sequential, k \in Admitted, a \in Sessions, i \in 1..MaxDeviceId :
       DeleteDeviceUnlink(r, k, a, i)
  \/ \E r \in Sequential : DeleteDeviceDelete(r)
  \/ \E r \in Sequential, k \in Admitted, a \in Sessions :
       GetDevicesLinks(r, k, a)
  \/ \E r \in Sequential : GetDevicesFind(r)
  \/ \E r \in Sequential, k \in Admitted, a \in Sessions, s \in Serials :
       GetEventsFind(r, k, a, s, Undefined, Undefined)
  \/ \E r \in Sequential : GetEventsQuery(r)
  \/ \E r \in Sequential, k \in Admitted, s \in Serials :
       PostEventFind(r, k, s, IsoTable[1])
  \/ \E r \in Sequential : PostEventCreate(r)
  \/ \E r \in Sequential : PostEventInsert(r)

SpecRoutes == InitRoutes /\ [][NextRoutes]_vars

(* Ingestion and device deletion, overlapping, by requests that pass the    *)
(* hooks                                                                    *)
NextIngestDelete ==
  \/ \E r \in Reqs, k \in Admitted, s \in Serials :
       PostEventFind(r, k, s, IsoTable[1])
  \/ \E r \in Reqs : PostEventCreate(r)
  \/ \E r \in Reqs : PostEventInsert(r)
  \/ \E r \in Reqs, k \in Admitted, a \in Sessions, i \in 1..MaxDeviceId :
       DeleteDeviceUnlink(r, k, a, i)
  \/ \E r \in Reqs : DeleteDeviceDelete(r)

SpecIngestDelete == InitOwnership /\ [][NextIngestDelete]_vars

----------------------------------------------------------------------------
(* Properties *)

(* The request in slot r: read as far as the body, i.e. let through by the  *)
(* onRequest hook and by the zod schema                                     *)
Parsed(r) == req[r].pc # "idle" /\ req[r].email # ""

(* The step in which the request now in slot r arrived *)
Arrives(r, kind) ==
  /\ Free(r)
  /\ req'[r] # req[r]
  /\ req'[r].kind = kind

Reply(r) ==
  <<req[r].status, req[r].message, req[r].token, req[r].devices, req[r].events>>

EmailUnique == \A u, v \in users : u.email = v.email => u = v

RegisterOfTakenEmail ==
  \A r \in Reqs :
    Arrives(r, "register") /\ (\E u \in users : u.email = req'[r].email)
      => /\ req'[r].pc = "done"
         /\ req'[r].status = 409
         /\ users' = users

(* C4: a POST /auth/register whose email already has a User row is          *)
(* answered 409 and creates no User row, and in every reachable state,      *)
(* whatever the interleaving of the register requests, no two User rows     *)
(* share an email.                                                          *)
C4_RegisterConflict == []EmailUnique /\ [][RegisterOfTakenEmail]_vars

(* C4 witness: a second registration of a registered email was answered     *)
(* 409 while the first one's row is the only row of that email              *)
C4_Witness ==
  \E r \in Reqs :
    /\ req[r].kind = "register" /\ req[r].status = 409
    /\ Cardinality({u \in users : u.email = req[r].email}) = 1

LoginFailed(r) ==
  req[r].kind = "login" /\ req[r].pc = "done" /\ Parsed(r) /\ req[r].status # 200

NoSuchUser(r) == LoginFailed(r) /\ ~(\E u \in users : u.email = req[r].email)

WrongPassword(r) ==
  /\ LoginFailed(r)
  /\ \E u \in users : u.email = req[r].email /\ u.password # Hash(req[r].password)

(* C9: POST /auth/login issues a token only when a User row with the email  *)
(* exists and the password matches its stored hash, and the replies to the  *)
(* two failures (no such user, wrong password) are the same 401 with the    *)
(* same message.                                                            *)
C9_LoginNoLeak ==
  /\ \A r \in Reqs :
       req[r].kind = "login" /\ req[r].token # NoToken
         => \E u \in users :
              /\ u.email = req[r].email
              /\ u.password = Hash(req[r].password)
              /\ req[r].token.id = u.id
  /\ \A r \in Reqs :
       req[r].kind = "login" /\ req[r].pc = "done" /\ Parsed(r)
         => (req[r].token = NoToken <=> req[r].status # 200)
  /\ \A a, b \in Reqs :
       NoSuchUser(a) /\ WrongPassword(b)
         => Reply(a) = Reply(b) /\ req[a].status = 401

(* C9 witness: a login for an unregistered email and a login with a wrong   *)
(* password have both been answered                                         *)
C9_Witness == \E a, b \in Reqs : NoSuchUser(a) /\ WrongPassword(b)

Registration(g, email, password) ==
  /\ req[g].kind = "register"
  /\ req[g].status = 201
  /\ req[g].email = email
  /\ req[g].password = password

LoginAfterRegister ==
  \A l, g \in Reqs :
    /\ Arrives(l, "login")
    /\ req'[l].email # ""
    /\ Registration(g, req'[l].email, req'[l].password)
    => /\ req'[l].status = 200
       /\ req'[l].token.id = req[g].token.id
       /\ req'[l].token.id = req[g].user.id
       /\ \E u \in users : u.id = req'[l].token.id /\ u.email = req'[l].email

(* C10: after a successful POST /auth/register, a POST /auth/login with the *)
(* same email and password succeeds, and its token carries the id of the    *)
(* User row the registration created, which is the id in the registration   *)
(* token.                                                                   *)
C10_RegisterThenLogin == [][LoginAfterRegister]_vars

(* C10 witness: a login was answered 200 while the registration of the same *)
(* email and password is still on record                                    *)
C10_Witness ==
  \E l, g \in Reqs :
    /\ req[l].kind = "login" /\ req[l].status = 200
    /\ Registration(g, req[l].email, req[l].password)

Ingested(r) == req[r].kind = "postEvent" /\ req[r].pc = "done"

(* The lookup of the ingestion in slot r found no device: it went on to     *)
(* device.create                                                            *)
FoundUnseen(r) ==
  /\ req[r].kind = "postEvent"
  /\ \/ req[r].pc = "create"
     \/ req[r].calls = 3
     \/ req[r].calls = 2 /\ req[r].pc = "done"

EventsOf(device) == {e \in deviceEvents : e.deviceId = device.id}

(* C1: when two POST /devices/:serialNumber/events for the same unseen      *)
(* serial number overlap, both are answered 201 whatever the interleaving,  *)
(* and the store ends with one Device row of that serial number and two     *)
(* DeviceEvent rows attached to it.                                         *)
C1_ConcurrentFirstEvents ==
  \A a, b \in Reqs :
    /\ a # b
    /\ Ingested(a) /\ Ingested(b)
    /\ FoundUnseen(a) /\ FoundUnseen(b)
    /\ req[a].serialNumber = req[b].serialNumber
    => /\ req[a].status = 201 /\ req[b].status = 201
       /\ \E d \in devices :
            /\ {x \in devices : x.serialNumber = req[a].serialNumber} = {d}
            /\ Cardinality(EventsOf(d)) = 2

KeyMissingOrWrong(r) == req[r].apiKey = Undefined \/ req[r].apiKey # env.API_KEY

(* C7: a POST /devices/:serialNumber/events whose x-api-key header is       *)
(* absent or differs from the shared secret is answered 403 before any      *)
(* storage call, whatever the secret is set to, also when it is not set.    *)
C7_IngestionFailsClosed ==
  \A r \in Reqs :
    req[r].kind = "postEvent" /\ KeyMissingOrWrong(r)
      => req[r].pc = "done" /\ req[r].status = 403 /\ req[r].calls = 0

SessionGated == {"postDevice", "deleteDevice", "getDevices", "getEvents"}

BadToken(auth) == auth.tag \in {"none", "malformed"} \/ auth.expired

Unauthorized(r) ==
  req[r].pc = "done" /\ req[r].status = 401 /\ req[r].calls = 0

(* C6 as stated: on every session-gated route a request whose token is      *)
(* missing, malformed or expired is answered Unauthorized and makes no      *)
(* storage call.                                                            *)
C6_BadTokenUnauthorized ==
  \A r \in Reqs :
    req[r].kind \in SessionGated /\ BadToken(req[r].auth) => Unauthorized(r)

BadTokenTouchesNothing ==
  \A r \in Reqs :
    /\ \E k \in SessionGated : Arrives(r, k)
    /\ BadToken(req'[r].auth)
    => /\ req'[r].pc = "done" /\ req'[r].calls = 0
       /\ req'[r].status = IF req'[r].apiKey = env.API_KEY THEN 401 ELSE 403
       /\ UNCHANGED stores

(* C6 amended: on every session-gated route a request whose token is        *)
(* missing, malformed or expired goes no further than the hooks: it is      *)
(* answered Unauthorized when its x-api-key passes the API-key hook, which  *)
(* runs first on every route, and Forbidden otherwise; the handler does not *)
(* run and storage is neither read nor changed.                             *)
C6_BadTokenStopsAtHooks ==
  /\ [](\A r \in Reqs :
          /\ req[r].kind \in SessionGated
          /\ BadToken(req[r].auth)
          /\ req[r].apiKey = env.API_KEY
          => Unauthorized(r))
  /\ [][BadTokenTouchesNothing]_vars

(* C6 witness: a request with the right x-api-key and an expired token was  *)
(* answered 401 while devices are registered                                *)
C6_Witness ==
  \E r \in Reqs :
    /\ req[r].kind \in SessionGated
    /\ req[r].apiKey = env.API_KEY
    /\ req[r].auth.expired
    /\ req[r].status = 401
    /\ devices # {}

Linked(userId, deviceId) ==
  \E l \in userDevices : l.userId = userId /\ l.deviceId = deviceId

DeleteByStranger ==
  \A r \in Reqs :
    /\ req[r].kind = "deleteDevice"
    /\ req[r].pc = "delete"
    /\ req'[r].pc = "done"
    /\ req[r].count = 0
    /\ \E d \in devices : d.id = req[r].id
    => /\ req'[r].status = 404
       /\ UNCHANGED <<devices, userDevices, deviceEvents>>

(* C3: a DELETE /devices/:id by a user who has no ownership link to the     *)
(* device is answered NotFound and leaves the Device row, the links and     *)
(* the events as they were.                                                 *)
C3_StrangerCannotDelete == [][DeleteByStranger]_vars

DevicesLinkedTo(userId) == {d \in devices : Linked(userId, d.id)}

ListingIsLinked ==
  \A r \in Reqs :
    /\ req[r].kind = "getDevices"
    /\ req[r].pc = "find"
    /\ req'[r].pc = "done"
    => /\ req'[r].status = 200
       /\ req'[r].devices = DevicesLinkedTo(req[r].auth.id)

(* C5: after any sequence of device registrations, ingestions and           *)
(* deletions, GET /devices by an authenticated user returns the existing    *)
(* devices that have an ownership link to that user, and no other device.   *)
(* (Stated of a listing that runs after the other requests, as under        *)
(* SpecOwnership: no request runs between its two reads.)                   *)
C5_ListingIsOwned == [][ListingIsLinked]_vars

(* C5 witness: a listing returned a device of the caller while a device     *)
(* without a link to the caller exists                                      *)
C5_Witness ==
  \E r \in Reqs :
    /\ req[r].kind = "getDevices" /\ req[r].status = 200
    /\ req[r].devices # {}
    /\ req[r].devices = DevicesLinkedTo(req[r].auth.id)
    /\ \E d \in devices : ~Linked(req[r].auth.id, d.id)

Queried(r) == req[r].kind = "getEvents" /\ req[r].pc = "done"

(* C2: a GET /devices/:serialNumber/events for an existing device the       *)
(* caller never linked is answered 404 as for a serial number without a     *)
(* Device row, and returns none of the device's events.  (No route of the   *)
(* specification it is checked under removes a link: no link now is no link *)
(* ever.)                                                                   *)
C2_StrangerSeesNotFound ==
  \A r \in Reqs :
    /\ Queried(r)
    /\ req[r].apiKey = env.API_KEY /\ ~BadToken(req[r].auth)
    /\ \E d \in devices :
         d.serialNumber = req[r].serialNumber /\ ~Linked(req[r].auth.id, d.id)
    => /\ req[r].status = 404
       /\ req[r].message = "Can not find the device"
       /\ req[r].events = {}

(* The table of the event query: each bound constrains only when present,   *)
(* and both are inclusive                                                   *)
InWindow(startDate, endDate, happenedAt) ==
  /\ startDate # Undefined => NewDate(startDate) <= happenedAt
  /\ endDate # Undefined => happenedAt <= NewDate(endDate)

QueryIsWindow ==
  \A r \in Reqs :
    /\ req[r].kind = "getEvents"
    /\ req[r].pc = "query"
    /\ req'[r].pc = "done"
    => /\ req'[r].status = 200
       /\ req'[r].events =
            {e \in EventsOf(req[r].device) :
               InWindow(req[r].startDate, req[r].endDate, e.happenedAt)}

(* C8: for every combination of startDate and endDate present or absent,    *)
(* GET /devices/:serialNumber/events returns the events of the device whose *)
(* happenedAt is within the bounds that are present, both inclusive, in     *)
(* whatever order the events were ingested.                                 *)
C8_QueryWindow == [][QueryIsWindow]_vars

(* C8 witness: the owner of a device queried it with both bounds equal to   *)
(* the happenedAt of an event ingested after a later one, and got that      *)
(* event and not the other                                                  *)
C8_Witness ==
  \E r \in Reqs :
    /\ Queried(r) /\ req[r].status = 200
    /\ Linked(req[r].auth.id, req[r].device.id)
    /\ req[r].startDate # Undefined /\ req[r].startDate = req[r].endDate
    /\ \E e, f \in EventsOf(req[r].device) :
         /\ e.happenedAt = NewDate(req[r].startDate)
         /\ f.happenedAt > e.happenedAt /\ f.id < e.id
         /\ req[r].events = {e}

(* C11: in every reachable state every ownership link references an         *)
(* existing Device row: a DELETE /devices/:id that removes the Device row   *)
(* leaves no link to it, of any user.                                       *)
C11_LinksReferToDevices ==
  \A l \in userDevices : \E d \in devices : d.id = l.deviceId

(* The POST /devices in slot r failed after device.create and before the    *)
(* link was written                                                         *)
LinkFailed(r) ==
  /\ req[r].kind = "postDevice"
  /\ req[r].pc = "done"
  /\ req[r].status = 500
  /\ req[r].calls = 3

RetryOfLinkFailure ==
  \A r \in Reqs :
    /\ LinkFailed(r)
    /\ Arrives(r, "postDevice")
    /\ req'[r].auth = req[r].auth
    /\ req'[r].serialNumber = req[r].serialNumber
    /\ req'[r].pc = "done"
    => \E d \in devices' :
         /\ {x \in devices' : x.serialNumber = req[r].serialNumber} = {d}
         /\ Cardinality({l \in userDevices' :
                           l.userId = req[r].auth.id /\ l.deviceId = d.id}) = 1

(* C12: when a POST /devices by user U for serial number S has failed after *)
(* the Device row was created and before the ownership link was, the same   *)
(* request run again ends with exactly one Device row of S and exactly one  *)
(* link (U, that device).                                                   *)
C12_RetryCompletesLink == [][RetryOfLinkFailure]_vars

LinkUnique ==
  \A l, m \in userDevices :
    l.userId = m.userId /\ l.deviceId = m.deviceId => l = m

RelinkIsQuiet ==
  \A r \in Reqs :
    /\ Arrives(r, "postDevice")
    /\ \E d \in devices :
         /\ d.serialNumber = req'[r].serialNumber
         /\ Linked(req'[r].auth.id, d.id)
    => /\ req'[r].pc = "done"
       /\ req'[r].status = 201
       /\ userDevices' = userDevices

(* C13: under any interleaving of POST /devices and DELETE /devices/:id     *)
(* requests no two ownership rows have the same (userId, deviceId), and a   *)
(* POST /devices by a user for a device already linked to that user is      *)
(* answered 201, not an error, and adds no row.                             *)
C13_OneLinkPerPair == []LinkUnique /\ [][RelinkIsQuiet]_vars

(* C13 witness: a user registered again a device linked to that user, was   *)
(* answered 201 at the lookup, and the pair has its one row                 *)
C13_Witness ==
  \E r \in Reqs :
    /\ req[r].kind = "postDevice" /\ req[r].status = 201 /\ req[r].calls = 1
    /\ Cardinality(UserDeviceMatching(req[r].auth.id, req[r].device.id)) = 1

(* C14: under any interleaving of POST /devices and                         *)
(* POST /devices/:serialNumber/events requests, no two Device rows have the *)
(* same serial number.                                                      *)
C14_SerialUnique ==
  \A d, e \in devices : d.serialNumber = e.serialNumber => d = e

(* C14 witness: a registration and a first ingestion of the same unseen     *)
(* serial number overlapped, both went on to device.create, and the serial  *)
(* number has its one row                                                   *)
C14_Witness ==
  \E a, b \in Reqs :
    /\ req[a].kind = "postDevice" /\ req[b].kind = "postEvent"
    /\ req[a].serialNumber = req[b].serialNumber
    /\ req[a].calls >= 2 /\ FoundUnseen(b) /\ req[b].calls >= 2
    /\ Cardinality({d \in devices : d.serialNumber = req[a].serialNumber}) = 1

Malformed(date) == date # Undefined /\ date \notin IsoDates

(* C15: a GET /devices/:serialNumber/events whose startDate or endDate is   *)
(* not a well-formed date-time is answered with the validation error and    *)
(* has made no storage call, the device lookup included, whether or not a   *)
(* Device row of the serial number exists.                                  *)
C15_MalformedDatesFailFirst ==
  \A r \in Reqs :
    /\ req[r].kind = "getEvents"
    /\ req[r].serialNumber # ""
    /\ Malformed(req[r].startDate) \/ Malformed(req[r].endDate)
    => /\ req[r].pc = "done"
       /\ req[r].message = "ZodError"
       /\ req[r].calls = 0

EventsKept == \A e \in deviceEvents : e \in deviceEvents'

(* C16: DeviceEvent rows are append-only: no step of any request (register, *)
(* login, device registration, device deletion, listing, event query,       *)
(* ingestion) removes a row an ingestion created or changes a field of it.  *)
C16_EventsAppendOnly == [][EventsKept]_vars

(* C16 witness: a DELETE /devices/:id removed the Device row of a device    *)
(* that has an event, and the event is still there                          *)
C16_Witness ==
  \E r \in Reqs :
    /\ req[r].kind = "deleteDevice" /\ req[r].status = 200
    /\ \E e \in deviceEvents : e.deviceId = req[r].id

(* The registration in slot r found no user of its email and went on to     *)
(* user.create, and has been answered                                       *)
RegisteredUnseen(r) ==
  req[r].kind = "register" /\ req[r].pc = "done" /\ req[r].calls = 2

(* C17: when two POST /auth/register for the same unregistered email        *)
(* overlap (each looked the email up before the other created the user),    *)
(* one is answered 201 with a token and the other 409, and neither gets a   *)
(* storage-layer error.                                                     *)
C17_ConcurrentRegisters ==
  \A a, b \in Reqs :
    /\ a # b
    /\ RegisteredUnseen(a) /\ RegisteredUnseen(b)
    /\ req[a].email = req[b].email
    => /\ {req[a].status, req[b].status} = {201, 409}
       /\ \A r \in {a, b} : req[r].status = 201 <=> req[r].token # NoToken

RegisteredByDefault(r) ==
  /\ req[r].kind = "register"
  /\ req[r].status = 201
  /\ env.JWT_EXPIRES_IN = Undefined

LoggedIn(r) == req[r].kind = "login" /\ req[r].status = 200

(* C18 as stated: the token of POST /auth/register has a default lifetime   *)
(* of 7 days, longer than the lifetime of the token of POST /auth/login.    *)
C18_RegisterTokenSevenDays ==
  /\ \A r \in Reqs :
       RegisteredByDefault(r) => Lifetime(req[r].token.expiresIn) = 7 * 24
  /\ \A r, l \in Reqs :
       RegisteredByDefault(r) /\ LoggedIn(l)
         => Lifetime(req[r].token.expiresIn) > Lifetime(req[l].token.expiresIn)

(* C18 amended: the token of POST /auth/register has a default lifetime of  *)
(* 1 day, the one it gets when JWT_EXPIRES_IN is not set, which is shorter  *)
(* than the lifetime of the token of POST /auth/login, 7 days.              *)
C18_RegisterTokenOneDay ==
  /\ \A r \in Reqs :
       RegisteredByDefault(r) => Lifetime(req[r].token.expiresIn) = 24
  /\ \A l \in Reqs :
       LoggedIn(l) => Lifetime(req[l].token.expiresIn) = 7 * 24
  /\ \A r, l \in Reqs :
       RegisteredByDefault(r) /\ LoggedIn(l)
         => Lifetime(req[r].token.expiresIn) < Lifetime(req[l].token.expiresIn)

(* C18 witness: with JWT_EXPIRES_IN not set, a registration and a login     *)
(* have both been answered with a token                                     *)
C18_Witness ==
  \E r, l \in Reqs :
    /\ RegisteredByDefault(r) /\ LoggedIn(l)
    /\ req[r].token # NoToken /\ req[l].token # NoToken

RegistrationLinks ==
  \A r \in Reqs :
    /\ req'[r] # req[r]
    /\ req'[r].kind = "postDevice"
    /\ req'[r].pc = "done"
    /\ req'[r].status = 201
    => \E d \in devices' :
         /\ d.serialNumber = req'[r].serialNumber
         /\ \E l \in userDevices' :
              l.userId = req'[r].auth.id /\ l.deviceId = d.id

(* C19: when a POST /devices by user U for serial number S is answered 201, *)
(* a link between U and the Device row of S exists from then on, also when  *)
(* the row was there before the request (created by a first ingestion, or   *)
(* registered by another user).                                             *)
C19_RegistrationLinks == [][RegistrationLinks]_vars

(* C20: in every reachable state the deviceId of every DeviceEvent row is   *)
(* the id of an existing Device row; no deletion followed by a new          *)
(* ingestion of the serial number leaves an event attached to an id that    *)
(* is gone.                                                                 *)
C20_EventsReferToDevices ==
  \A e \in deviceEvents : \E d \in devices : d.id = e.deviceId

====
